---- MODULE Spec2Model ----
(***************************************************************************)
(* Model of the builder core: the RemoteRelay validator registry and its   *)
(* refresh protocol (builder package), the relay client's header and       *)
(* submission calls, and the greedy block builder (miner package).         *)
(***************************************************************************)
EXTENDS Integers, Sequences, FiniteSets, TLC

(***************************************************************************)
(* Bounds of the model and constants of the program.                       *)
(***************************************************************************)
\* number of GetValidatorForSlot calls (each may spawn one refresh goroutine)
MaxLookups == 2
\* epoch length used by GetValidatorForSlot (nextSlot/32)
EpochLen == 32
\* retries of the constructor's refresh, updateValidatorsMap(0, 3)
CtorRetries == 3
\* retries of a refresh spawned by a lookup, updateValidatorsMap(nextSlot, 1)
LookupRetries == 1
\* length of boostTypes.Address
AddressLength == 20
\* http.Client.Timeout of r.client, in seconds
RelayClientTimeout == 1
\* http.Client.Timeout of http.DefaultClient: zero means no timeout
DefaultClientTimeout == 0

\* the slots lookups ask for and relay responses register
Slots == {0, 33}

NoOne == -1
NilMap == -1
NoEntry == [none |-> TRUE]

\* the constructor's call is refresher 0; lookup l spawns refresher l
Lookups == 1..MaxLookups
Refreshers == 0..MaxLookups
MapIds == 0..(MaxLookups + 2)

(***************************************************************************)
(* Decoding of the relay's validator response.                             *)
(***************************************************************************)
HexVal(c) ==
    CASE c = "0" -> 0 [] c = "1" -> 1 [] c = "2" -> 2 [] c = "3" -> 3
      [] c = "4" -> 4 [] c = "5" -> 5 [] c = "6" -> 6 [] c = "7" -> 7
      [] c = "8" -> 8 [] c = "9" -> 9
      [] c = "a" -> 10 [] c = "b" -> 11 [] c = "c" -> 12
      [] c = "d" -> 13 [] c = "e" -> 14 [] c = "f" -> 15
      [] c = "A" -> 10 [] c = "B" -> 11 [] c = "C" -> 12
      [] c = "D" -> 13 [] c = "E" -> 14 [] c = "F" -> 15
      [] OTHER -> -1

\* hexutil.Decode succeeds: non-empty, 0x prefix, even number of hex digits
HexDecodeOk(s) ==
    /\ Len(s) >= 2
    /\ s[1] = "0"
    /\ s[2] \in {"x", "X"}
    /\ Len(s) % 2 = 0
    /\ \A i \in 3..Len(s) : HexVal(s[i]) >= 0

\* the bytes hexutil.Decode returns
HexDecode(s) ==
    [i \in 1..((Len(s) - 2) \div 2) |-> 16 * HexVal(s[2 * i + 1]) + HexVal(s[2 * i + 2])]

\* boostTypes.Address.FromSlice into a zero Address: it copies a slice of
\* AddressLength bytes and returns ErrLength for any other, leaving the address
\* as it was; line 230 drops the error
FromSlice(b) ==
    [i \in 1..AddressLength |-> IF Len(b) = AddressLength THEN b[i] ELSE 0]

ToLowerChar(c) ==
    CASE c = "A" -> "a" [] c = "B" -> "b" [] c = "C" -> "c"
      [] c = "D" -> "d" [] c = "E" -> "e" [] c = "F" -> "f"
      [] c = "X" -> "x"
      [] OTHER -> c

\* strings.ToLower
ToLower(s) == [i \in 1..Len(s) |-> ToLowerChar(s[i])]

EmptyMap == [s \in Slots |-> NoEntry]

\* a map slot of the heap holding no object
FreeMap == [s \in Slots |-> [free |-> TRUE]]

\* ValidatorData built from one response record (lines 232-238)
ValidatorDataOf(data) ==
    [Pubkey |-> ToLower(data.pubkey),
     FeeRecipient |-> FromSlice(HexDecode(data.fee_recipient)),
     GasLimit |-> data.gas_limit]

\* the decode loop of getSlotValidatorMapFromRelay over dst[1..n]
RECURSIVE DecodeInto(_, _, _)
DecodeInto(res, dst, i) ==
    IF i > Len(dst) THEN res
    ELSE IF ~HexDecodeOk(dst[i].fee_recipient)
         THEN DecodeInto(res, dst, i + 1)
         ELSE DecodeInto([res EXCEPT ![dst[i].slot] = ValidatorDataOf(dst[i])], dst, i + 1)

DecodeResponse(dst) == DecodeInto(EmptyMap, dst, 1)

\* relay responses the peer may send
RespA ==
    << [slot |-> 0, fee_recipient |-> <<"0", "x", "a", "1">>, gas_limit |-> 30,
        pubkey |-> <<"0", "x", "A", "b">>],
       [slot |-> 33, fee_recipient |-> <<"a", "1">>, gas_limit |-> 31,
        pubkey |-> <<"0", "x", "c", "d">>] >>

RespB ==
    << [slot |-> 0, fee_recipient |-> <<"0", "X", "B", "2">>, gas_limit |-> 40,
        pubkey |-> <<"0", "x", "E", "F">>],
       [slot |-> 33, fee_recipient |-> <<"0", "x", "c", "3">>, gas_limit |-> 41,
        pubkey |-> <<"0", "x", "c", "d">>],
       [slot |-> 33, fee_recipient |-> <<"0", "x", "g", "0">>, gas_limit |-> 42,
        pubkey |-> <<"0", "x", "0", "0">>] >>

\* what SendHTTPRequest can return for GET /relay/v1/builder/validators
FetchOutcomes ==
    { [err |-> TRUE, code |-> 0, dst |-> << >>],
      [err |-> FALSE, code |-> 500, dst |-> << >>],
      [err |-> FALSE, code |-> 200, dst |-> RespA],
      [err |-> FALSE, code |-> 200, dst |-> RespB] }

\* getSlotValidatorMapFromRelay: the (map, err) it returns for an outcome
GetSlotValidatorMapFromRelay(o) ==
    IF o.err THEN [ok |-> FALSE, err |-> "transport", map |-> EmptyMap]
    ELSE IF o.code > 299 THEN [ok |-> FALSE, err |-> "status", map |-> EmptyMap]
    ELSE [ok |-> TRUE, err |-> "nil", map |-> DecodeResponse(o.dst)]

\* a registration the local relay may hold
LocalValidator ==
    [Pubkey |-> <<"0", "x", "1", "1">>,
     FeeRecipient |-> FromSlice([i \in 1..AddressLength |-> 17]),
     GasLimit |-> 50]

(***************************************************************************)
(* State.                                                                  *)
(***************************************************************************)
VARIABLES
    \* RemoteRelay fields
    localRelay,            \* "nil" or "set"
    validatorsLock,        \* [w: exclusive holder or NoOne, r: set of shared holders]
    validatorSyncOngoing,
    lastRequestedSlot,
    validatorSlotMap,      \* reference to a map object
    heap,                  \* map objects: MapIds -> contents, or FreeMap
    \* invocations
    upd,                   \* updateValidatorsMap invocations, per refresher
    get,                   \* GetValidatorForSlot invocations, per lookup
    \* history
    installed,             \* the (map contents, watermark) of the last completed install
    pre,                   \* per running refresher: (map contents, watermark) when it passed the guard
    nfetch,                \* per running refresher: network fetches started
    seen,                  \* per lookup: watermark read and install observed
    localAns               \* per lookup: what the local relay answered

relayVars ==
    <<localRelay, validatorsLock, validatorSyncOngoing, lastRequestedSlot,
      validatorSlotMap, heap, upd, get, installed, pre, nfetch, seen, localAns>>

VARIABLES
    \* greedyBuilder and one buildBlock call
    simBundles,            \* buildBlock's argument: the simulated bundles
    transactions,          \* buildBlock's argument: sender -> nonce-ordered transactions
    interrupt,             \* *b.interrupt is set
    inputEnvironment,      \* b.inputEnvironment: a reference to an environment object
    envs,                  \* environment objects: EnvIds -> contents, or FreeEnv
    calls,                 \* buildBlock calls made on the builder so far
    bpc,                   \* position of the buildBlock call
    orders,                \* the TransactionsByPriceAndNonce supply
    envDiff,               \* [baseEnvironment, newTxs]
    usedBundles,
    result,                \* what buildBlock returned
    \* history
    peekLog,               \* every order peeked: the cursor operation that consumed it, and
                           \* whether its commit succeeded
    cancelled              \* the build when commitBundle first observed the interrupt

buildVars ==
    <<simBundles, transactions, interrupt, inputEnvironment, envs, calls, bpc, orders,
      envDiff, usedBundles, result, peekLog, cancelled>>

VARIABLES
    \* one GetHeader, SubmitBlock or SubmitBlockCapella call
    op

opsVars == <<op>>

VARIABLES
    \* one getSlotValidatorMapFromRelay call
    dec

decVars == <<dec>>

vars == <<relayVars, buildVars, opsVars, decVars>>

\* the frame of an updateValidatorsMap invocation; maxRetries keeps the value
\* retries was called with
IdleU ==
    [pc |-> "idle", currentSlot |-> 0, retries |-> 0, maxRetries |-> 0,
     newMap |-> NilMap, err |-> "nil", ret |-> "none", client |-> "none"]

\* updateValidatorsMap(currentSlot, retries) has been called
CallFrame(currentSlot, retries) ==
    [IdleU EXCEPT !.pc = "L65", !.currentSlot = currentSlot,
                  !.retries = retries, !.maxRetries = retries]

IdleG ==
    [pc |-> "idle", nextSlot |-> 0, vd |-> NoEntry, found |-> FALSE,
     ret |-> "none", val |-> NoEntry]

\* an invocation that has returned ret: its frame is gone
Returned(ret) == [IdleU EXCEPT !.pc = "done", !.ret = ret]

View0 == [map |-> EmptyMap, slot |-> 0]

NoSeen == [mark |-> 0, view |-> View0]

\* the map objects reachable from the relay or from a refresher's newMap
Refs(m, u) == ({m} \cup {u[r].newMap : r \in Refreshers}) \ {NilMap}

FreshId(refs) == CHOOSE i \in MapIds : i \notin refs /\ \A j \in MapIds : j \notin refs => i <= j

\* unreachable map objects are collected
Collect(h, refs) == [i \in MapIds |-> IF i \in refs THEN h[i] ELSE FreeMap]

\* what a reader of the registry sees now
CurrentView == [map |-> heap[validatorSlotMap], slot |-> lastRequestedSlot]

\* NewRemoteRelay up to the call of updateValidatorsMap(0, 3)
InitRelay ==
    /\ localRelay \in {"nil", "set"}
    /\ validatorsLock = [w |-> NoOne, r |-> {}]
    /\ validatorSyncOngoing = FALSE
    /\ lastRequestedSlot = 0
    /\ validatorSlotMap = 0
    /\ heap = [i \in MapIds |-> IF i = 0 THEN EmptyMap ELSE FreeMap]
    /\ upd = [r \in Refreshers |->
                IF r = 0 THEN CallFrame(0, CtorRetries) ELSE IdleU]
    /\ get = [l \in Lookups |-> IdleG]
    /\ installed = View0
    /\ pre = [r \in Refreshers |-> View0]
    /\ nfetch = [r \in Refreshers |-> 0]
    /\ seen = [l \in Lookups |-> NoSeen]
    /\ localAns = [l \in Lookups |-> "none"]

(***************************************************************************)
(* updateValidatorsMap(currentSlot, retries), one action per step.         *)
(***************************************************************************)
\* U_Lock that does not wait for the shared holders
U_Lock_IgnoresReaders(r) ==
    /\ upd[r].pc \in {"L65", "L81"}
    /\ validatorsLock.w = NoOne
    /\ validatorsLock' = [validatorsLock EXCEPT !.w = r]
    /\ upd' = [upd EXCEPT ![r].pc = IF upd[r].pc = "L65" THEN "L66" ELSE "L82"]
    /\ UNCHANGED <<localRelay, validatorSyncOngoing, lastRequestedSlot, validatorSlotMap,
                   heap, get, installed, pre, nfetch, seen, localAns>>
    /\ UNCHANGED <<buildVars, opsVars, decVars>>

\* validatorsLock.Lock() at line 65 or 81
U_Lock(r) ==
    /\ upd[r].pc \in {"L65", "L81"}
    /\ validatorsLock.w = NoOne
    /\ validatorsLock.r = {}
    /\ validatorsLock' = [validatorsLock EXCEPT !.w = r]
    /\ upd' = [upd EXCEPT ![r].pc = IF upd[r].pc = "L65" THEN "L66" ELSE "L82"]
    /\ UNCHANGED <<localRelay, validatorSyncOngoing, lastRequestedSlot, validatorSlotMap,
                   heap, get, installed, pre, nfetch, seen, localAns>>
    /\ UNCHANGED <<buildVars, opsVars, decVars>>

\* U_Reject without its return: the invocation unlocks and goes on to fetch
U_Reject_FallsThrough(r) ==
    /\ upd[r].pc = "L66"
    /\ validatorSyncOngoing
    /\ validatorsLock' = [validatorsLock EXCEPT !.w = NoOne]
    /\ upd' = [upd EXCEPT ![r].pc = "L74"]
    /\ pre' = [pre EXCEPT ![r] = CurrentView]
    /\ UNCHANGED <<localRelay, validatorSyncOngoing, lastRequestedSlot, validatorSlotMap,
                   heap, get, installed, nfetch, seen, localAns>>
    /\ UNCHANGED <<buildVars, opsVars, decVars>>

\* lines 66-69: a sync is ongoing, unlock and return the error
U_Reject(r) ==
    /\ upd[r].pc = "L66"
    /\ validatorSyncOngoing
    /\ validatorsLock' = [validatorsLock EXCEPT !.w = NoOne]
    /\ upd' = [upd EXCEPT ![r] = Returned("ongoing")]
    /\ UNCHANGED <<localRelay, validatorSyncOngoing, lastRequestedSlot, validatorSlotMap,
                   heap, get, installed, pre, nfetch, seen, localAns>>
    /\ UNCHANGED <<buildVars, opsVars, decVars>>

\* U_MarkOngoing without its Unlock: the lock is held across the fetch
U_MarkOngoing_KeepsLock(r) ==
    /\ upd[r].pc = "L66"
    /\ ~validatorSyncOngoing
    /\ validatorSyncOngoing' = TRUE
    /\ upd' = [upd EXCEPT ![r].pc = "L74"]
    /\ pre' = [pre EXCEPT ![r] = CurrentView]
    /\ UNCHANGED <<localRelay, validatorsLock, lastRequestedSlot, validatorSlotMap,
                   heap, get, installed, nfetch, seen, localAns>>
    /\ UNCHANGED <<buildVars, opsVars, decVars>>

\* lines 70-71: mark the sync ongoing and unlock
U_MarkOngoing(r) ==
    /\ upd[r].pc = "L66"
    /\ ~validatorSyncOngoing
    /\ validatorSyncOngoing' = TRUE
    /\ validatorsLock' = [validatorsLock EXCEPT !.w = NoOne]
    /\ upd' = [upd EXCEPT ![r].pc = "L74"]
    /\ pre' = [pre EXCEPT ![r] = CurrentView]
    /\ UNCHANGED <<localRelay, lastRequestedSlot, validatorSlotMap,
                   heap, get, installed, nfetch, seen, localAns>>
    /\ UNCHANGED <<buildVars, opsVars, decVars>>

\* the client getSlotValidatorMapFromRelay hands to SendHTTPRequest (line 213)
FetchClient == "http.DefaultClient"

\* the timeout an http.Client puts on a call made through it (0: none)
ClientTimeout(c) == IF c = "r.client" THEN RelayClientTimeout ELSE DefaultClientTimeout

\* lines 74 and 78: getSlotValidatorMapFromRelay sends its request
U_FetchBegin(r) ==
    /\ upd[r].pc \in {"L74", "L78"}
    /\ upd' = [upd EXCEPT ![r].pc = IF upd[r].pc = "L74" THEN "F74" ELSE "F78",
                          ![r].client = FetchClient]
    /\ nfetch' = [nfetch EXCEPT ![r] = @ + 1]
    /\ UNCHANGED <<localRelay, validatorsLock, validatorSyncOngoing, lastRequestedSlot,
                   validatorSlotMap, heap, get, installed, pre, seen, localAns>>
    /\ UNCHANGED <<buildVars, opsVars, decVars>>

\* U_FetchEnd with the retry budget never decremented
U_FetchEnd_NoDecrement(r) ==
    /\ upd[r].pc \in {"F74", "F78"}
    /\ \E o \in FetchOutcomes :
        LET res == GetSlotValidatorMapFromRelay(o)
            id == FreshId(Refs(validatorSlotMap, upd))
            rt == upd[r].retries
            u2 == [upd EXCEPT ![r].pc = IF res.err # "nil" /\ rt > 0 THEN "S77" ELSE "L81",
                              ![r].client = "none",
                              ![r].err = res.err,
                              ![r].newMap = IF res.ok THEN id ELSE NilMap,
                              ![r].retries = rt]
            h2 == IF res.ok THEN [heap EXCEPT ![id] = res.map] ELSE heap
        IN /\ upd' = u2
           /\ heap' = Collect(h2, Refs(validatorSlotMap, u2))
    /\ UNCHANGED <<localRelay, validatorsLock, validatorSyncOngoing, lastRequestedSlot,
                   validatorSlotMap, get, installed, pre, nfetch, seen, localAns>>
    /\ UNCHANGED <<buildVars, opsVars, decVars>>

\* lines 74-80: the request returns; newMap, err are assigned, retries is
\* decremented after a retry, and the loop's test either starts time.Sleep
\* (line 77) or leaves the loop
U_FetchEnd(r) ==
    /\ upd[r].pc \in {"F74", "F78"}
    /\ \E o \in FetchOutcomes :
        LET res == GetSlotValidatorMapFromRelay(o)
            id == FreshId(Refs(validatorSlotMap, upd))
            rt == IF upd[r].pc = "F78" THEN upd[r].retries - 1 ELSE upd[r].retries
            u2 == [upd EXCEPT ![r].pc = IF res.err # "nil" /\ rt > 0 THEN "S77" ELSE "L81",
                              ![r].client = "none",
                              ![r].err = res.err,
                              ![r].newMap = IF res.ok THEN id ELSE NilMap,
                              ![r].retries = rt]
            h2 == IF res.ok THEN [heap EXCEPT ![id] = res.map] ELSE heap
        IN /\ upd' = u2
           /\ heap' = Collect(h2, Refs(validatorSlotMap, u2))
    /\ UNCHANGED <<localRelay, validatorsLock, validatorSyncOngoing, lastRequestedSlot,
                   validatorSlotMap, get, installed, pre, nfetch, seen, localAns>>
    /\ UNCHANGED <<buildVars, opsVars, decVars>>

\* line 77: time.Sleep(time.Second) ends
U_Wake(r) ==
    /\ upd[r].pc = "S77"
    /\ upd' = [upd EXCEPT ![r].pc = "L78"]
    /\ UNCHANGED <<localRelay, validatorsLock, validatorSyncOngoing, lastRequestedSlot,
                   validatorSlotMap, heap, get, installed, pre, nfetch, seen, localAns>>
    /\ UNCHANGED <<buildVars, opsVars, decVars>>

\* line 82: clear the flag under the lock
U_ClearOngoing(r) ==
    /\ upd[r].pc = "L82"
    /\ validatorSyncOngoing' = FALSE
    /\ upd' = [upd EXCEPT ![r].pc = "L83"]
    /\ UNCHANGED <<localRelay, validatorsLock, lastRequestedSlot,
                   validatorSlotMap, heap, get, installed, pre, nfetch, seen, localAns>>
    /\ UNCHANGED <<buildVars, opsVars, decVars>>

\* U_FailReturn with the watermark assigned before the error is checked
U_FailReturn_MovesWatermark(r) ==
    /\ upd[r].pc = "L83"
    /\ upd[r].err # "nil"
    /\ lastRequestedSlot' = upd[r].currentSlot
    /\ validatorsLock' = [validatorsLock EXCEPT !.w = NoOne]
    /\ upd' = [upd EXCEPT ![r] = Returned(upd[r].err)]
    /\ pre' = [pre EXCEPT ![r] = View0]
    /\ nfetch' = [nfetch EXCEPT ![r] = 0]
    /\ UNCHANGED <<localRelay, validatorSyncOngoing,
                   validatorSlotMap, heap, get, installed, seen, localAns>>
    /\ UNCHANGED <<buildVars, opsVars, decVars>>

\* lines 83-86: the fetch failed, unlock and return its error
U_FailReturn(r) ==
    /\ upd[r].pc = "L83"
    /\ upd[r].err # "nil"
    /\ validatorsLock' = [validatorsLock EXCEPT !.w = NoOne]
    /\ upd' = [upd EXCEPT ![r] = Returned(upd[r].err)]
    /\ pre' = [pre EXCEPT ![r] = View0]
    /\ nfetch' = [nfetch EXCEPT ![r] = 0]
    /\ UNCHANGED <<localRelay, validatorSyncOngoing, lastRequestedSlot,
                   validatorSlotMap, heap, get, installed, seen, localAns>>
    /\ UNCHANGED <<buildVars, opsVars, decVars>>

\* line 89: r.validatorSlotMap = newMap
U_InstallMap(r) ==
    /\ upd[r].pc = "L83"
    /\ upd[r].err = "nil"
    /\ validatorSlotMap' = upd[r].newMap
    /\ upd' = [upd EXCEPT ![r].pc = "L90"]
    /\ heap' = Collect(heap, Refs(upd[r].newMap, upd))
    /\ UNCHANGED <<localRelay, validatorsLock, validatorSyncOngoing, lastRequestedSlot,
                   get, installed, pre, nfetch, seen, localAns>>
    /\ UNCHANGED <<buildVars, opsVars, decVars>>

\* lines 90-94: r.lastRequestedSlot = currentSlot, unlock, return nil
U_InstallSlot(r) ==
    /\ upd[r].pc = "L90"
    /\ lastRequestedSlot' = upd[r].currentSlot
    /\ validatorsLock' = [validatorsLock EXCEPT !.w = NoOne]
    /\ upd' = [upd EXCEPT ![r] = Returned("ok")]
    /\ installed' = [map |-> heap[validatorSlotMap], slot |-> upd[r].currentSlot]
    /\ pre' = [pre EXCEPT ![r] = View0]
    /\ nfetch' = [nfetch EXCEPT ![r] = 0]
    /\ UNCHANGED <<localRelay, validatorSyncOngoing, validatorSlotMap,
                   heap, get, seen, localAns>>
    /\ UNCHANGED <<buildVars, opsVars, decVars>>

(***************************************************************************)
(* GetValidatorForSlot(nextSlot), one action per step.                     *)
(***************************************************************************)
\* NewRemoteRelay has returned r: its synchronous refresh is over
Constructed == upd[0].pc = "done"

\* the caller invokes GetValidatorForSlot(s); it issues its lookups one after another
G_Call(l, s) ==
    /\ Constructed
    /\ get[l].pc = "idle"
    /\ \A k \in Lookups : k < l => get[k].pc = "gone"
    /\ get' = [get EXCEPT ![l] = [IdleG EXCEPT !.pc = "L101", !.nextSlot = s]]
    /\ UNCHANGED <<localRelay, validatorsLock, validatorSyncOngoing, lastRequestedSlot,
                   validatorSlotMap, heap, upd, installed, pre, nfetch, seen, localAns>>
    /\ UNCHANGED <<buildVars, opsVars, decVars>>

\* G_RLock that does not wait for the exclusive holder
G_RLock_IgnoresWriter(l) ==
    /\ get[l].pc = "L101"
    /\ validatorsLock' = [validatorsLock EXCEPT !.r = @ \cup {l}]
    /\ get' = [get EXCEPT ![l].pc = "L102"]
    /\ UNCHANGED <<localRelay, validatorSyncOngoing, lastRequestedSlot,
                   validatorSlotMap, heap, upd, installed, pre, nfetch, seen, localAns>>
    /\ UNCHANGED <<buildVars, opsVars, decVars>>

\* line 101: validatorsLock.RLock()
G_RLock(l) ==
    /\ get[l].pc = "L101"
    /\ validatorsLock.w = NoOne
    /\ validatorsLock' = [validatorsLock EXCEPT !.r = @ \cup {l}]
    /\ get' = [get EXCEPT ![l].pc = "L102"]
    /\ UNCHANGED <<localRelay, validatorSyncOngoing, lastRequestedSlot,
                   validatorSlotMap, heap, upd, installed, pre, nfetch, seen, localAns>>
    /\ UNCHANGED <<buildVars, opsVars, decVars>>

\* RefreshDue without the test for a zero watermark
RefreshDue_EpochOnly(nextSlot) ==
    nextSlot \div EpochLen > lastRequestedSlot \div EpochLen

\* line 102: the refresh is due
RefreshDue(nextSlot) ==
    lastRequestedSlot = 0 \/ nextSlot \div EpochLen > lastRequestedSlot \div EpochLen

\* lines 102-110: read the watermark and spawn the refresh goroutine when due
G_MaybeSpawn(l) ==
    /\ get[l].pc = "L102"
    /\ get' = [get EXCEPT ![l].pc = "L112"]
    /\ seen' = [seen EXCEPT ![l] = [mark |-> lastRequestedSlot, view |-> installed]]
    /\ upd' = IF RefreshDue(get[l].nextSlot)
              THEN [upd EXCEPT ![l] = CallFrame(get[l].nextSlot, LookupRetries)]
              ELSE upd
    /\ UNCHANGED <<localRelay, validatorsLock, validatorSyncOngoing, lastRequestedSlot,
                   validatorSlotMap, heap, installed, pre, nfetch, localAns>>
    /\ UNCHANGED <<buildVars, opsVars, decVars>>

\* line 112: vd, found := r.validatorSlotMap[nextSlot]
G_Read(l) ==
    /\ get[l].pc = "L112"
    /\ LET e == heap[validatorSlotMap][get[l].nextSlot]
       IN get' = [get EXCEPT ![l].pc = "L113",
                             ![l].found = (e # NoEntry),
                             ![l].vd = e]
    /\ UNCHANGED <<localRelay, validatorsLock, validatorSyncOngoing, lastRequestedSlot,
                   validatorSlotMap, heap, upd, installed, pre, nfetch, seen, localAns>>
    /\ UNCHANGED <<buildVars, opsVars, decVars>>

\* line 113: validatorsLock.RUnlock()
G_RUnlock(l) ==
    /\ get[l].pc = "L113"
    /\ validatorsLock' = [validatorsLock EXCEPT !.r = @ \ {l}]
    /\ get' = [get EXCEPT ![l].pc = "L115"]
    /\ UNCHANGED <<localRelay, validatorSyncOngoing, lastRequestedSlot,
                   validatorSlotMap, heap, upd, installed, pre, nfetch, seen, localAns>>
    /\ UNCHANGED <<buildVars, opsVars, decVars>>

\* what localRelay.GetValidatorForSlot may answer
LocalAnswers == IF localRelay = "nil" THEN {"nocall"} ELSE {"found", "notfound"}

\* LookupResult with the remote entry consulted before the local relay
LookupResult_RemoteFirst(local, found, vd) ==
    IF found THEN [ret |-> "ok", val |-> vd]
    ELSE IF localRelay # "nil" /\ local = "found"
    THEN [ret |-> "ok", val |-> LocalValidator]
    ELSE [ret |-> "ErrValidatorNotFound", val |-> NoEntry]

\* lines 115-127: the value and error GetValidatorForSlot returns
LookupResult(local, found, vd) ==
    IF localRelay # "nil" /\ local = "found"
    THEN [ret |-> "ok", val |-> LocalValidator]
    ELSE IF found THEN [ret |-> "ok", val |-> vd]
    ELSE [ret |-> "ErrValidatorNotFound", val |-> NoEntry]

\* lines 115-127: consult the local relay, then return
G_Return(l) ==
    /\ get[l].pc = "L115"
    /\ \E a \in LocalAnswers :
        LET res == LookupResult(a, get[l].found, get[l].vd)
        IN /\ localAns' = [localAns EXCEPT ![l] = a]
           /\ get' = [get EXCEPT ![l].pc = "done", ![l].ret = res.ret, ![l].val = res.val]
    /\ UNCHANGED <<localRelay, validatorsLock, validatorSyncOngoing, lastRequestedSlot,
                   validatorSlotMap, heap, upd, installed, pre, nfetch, seen>>
    /\ UNCHANGED <<buildVars, opsVars, decVars>>

\* the caller has taken the result
G_Exit(l) ==
    /\ get[l].pc = "done"
    /\ get' = [get EXCEPT ![l] = [IdleG EXCEPT !.pc = "gone"]]
    /\ seen' = [seen EXCEPT ![l] = NoSeen]
    /\ localAns' = [localAns EXCEPT ![l] = "none"]
    /\ UNCHANGED <<localRelay, validatorsLock, validatorSyncOngoing, lastRequestedSlot,
                   validatorSlotMap, heap, upd, installed, pre, nfetch>>
    /\ UNCHANGED <<buildVars, opsVars, decVars>>

(***************************************************************************)
(* The greedy builder: buildBlock and mergeOrdersIntoEnvDiff.              *)
(***************************************************************************)
\* bundles offered to one buildBlock call
MaxBundles == 3
\* buildBlock calls on one builder
MaxBuilds == 2
\* transactions in one sender's queue
MaxQueue == 2

Senders == {"X", "Y"}

TxPrice(from, nonce) ==
    IF from = "X"
    THEN (CASE nonce = 0 -> 10 [] nonce = 1 -> 50 [] OTHER -> 15)
    ELSE 20

BundlePrice(id) ==
    CASE id = 1 -> 30 [] id = 2 -> 40 [] id = 3 -> 25 [] OTHER -> 35

TxOrder(from, nonce) ==
    [kind |-> "tx", from |-> from, n |-> nonce, price |-> TxPrice(from, nonce)]

BundleOrder(id) ==
    [kind |-> "bundle", from |-> "-", n |-> id, price |-> BundlePrice(id)]

\* a sender's queue of the given length, in nonce order
QueueOf(from, len) == [i \in 1..len |-> TxOrder(from, i - 1)]

\* the skip values of commitTx
shiftTx == 1
popTx == 2

\* NewTransactionsByPriceAndNonce with every transaction eligible at once
NewTransactionsByPriceAndNonce_AllHeads(txs, bundles) ==
    [heads |-> bundles \cup UNION {{txs[a][i] : i \in 1..Len(txs[a])} : a \in Senders},
     txs |-> [a \in Senders |-> << >>]]

\* types.NewTransactionsByPriceAndNonce: the heads are every bundle and each
\* sender's first transaction; txs keeps the rest of each queue
NewTransactionsByPriceAndNonce(txs, bundles) ==
    [heads |-> bundles \cup {txs[a][1] : a \in {x \in Senders : Len(txs[x]) > 0}},
     txs |-> [a \in Senders |-> IF Len(txs[a]) > 0 THEN Tail(txs[a]) ELSE << >>]]

\* PeekSet that returns any head, whatever its price
PeekSet_AnyHead(o) == o.heads

\* Peek: a head of the highest price, or none when the supply is exhausted
PeekSet(o) == {h \in o.heads : \A g \in o.heads : g.price <= h.price}

\* Pop: drop the head, and with a transaction the sender's remaining queue
Pop(o, h) ==
    [heads |-> o.heads \ {h},
     txs |-> [a \in Senders |-> IF h.kind = "tx" /\ a = h.from THEN << >> ELSE o.txs[a]]]

\* Shift: replace a transaction head by the sender's next transaction
Shift(o, h) ==
    IF h.kind = "tx" /\ Len(o.txs[h.from]) > 0
    THEN [heads |-> (o.heads \ {h}) \cup {o.txs[h.from][1]},
          txs |-> [o.txs EXCEPT ![h.from] = Tail(@)]]
    ELSE Pop(o, h)

\* what envDiff.commitTx may return: (skip, err)
CommitTxOutcomes ==
    { [skip |-> shiftTx, err |-> FALSE],
      [skip |-> shiftTx, err |-> TRUE],
      [skip |-> popTx, err |-> TRUE] }

\* what envDiff.commitBundle may return: it fails with the interrupt error
\* when the interrupt is set, and otherwise succeeds or fails on the bundle
CommitBundleOutcomes == IF interrupt THEN {"errInterrupt"} ELSE {"nil", "err"}

NotCancelled == [at |-> FALSE, newTxs |-> << >>, used |-> << >>, heads |-> {}]

NilEnv == -1

\* an environment slot holding no object
FreeEnv == [free |-> TRUE]

\* the environment objects: the builder's input and the copy of a call
EnvIds == 0..1

\* the environment newGreedyBuilder is given: the parent block's state
ParentEnv == [txs |-> <<"parent">>]

NoDiff == [baseEnvironment |-> NilEnv, newTxs |-> << >>]

NoOrders == [heads |-> {}, txs |-> [a \in Senders |-> << >>]]

NoResult == [env |-> NilEnv, usedBundles |-> << >>]

\* no buildBlock call
IdleBuild ==
    /\ simBundles = {}
    /\ transactions = [a \in Senders |-> << >>]
    /\ interrupt = FALSE
    /\ inputEnvironment = NilEnv
    /\ envs = << >>
    /\ calls = 0
    /\ bpc = "idle"
    /\ orders = NoOrders
    /\ envDiff = NoDiff
    /\ usedBundles = << >>
    /\ result = NoResult
    /\ peekLog = << >>
    /\ cancelled = NotCancelled

\* newGreedyBuilder, and the arguments of the buildBlock call to come
InitBuild ==
    /\ simBundles \in SUBSET {BundleOrder(i) : i \in 1..MaxBundles}
    /\ \E lx \in 0..MaxQueue, ly \in 0..1 :
         transactions = [a \in Senders |-> QueueOf(a, IF a = "X" THEN lx ELSE ly)]
    /\ interrupt = FALSE
    /\ inputEnvironment = 0
    /\ envs = [i \in EnvIds |-> IF i = 0 THEN ParentEnv ELSE FreeEnv]
    /\ calls = 1
    /\ bpc = "L85"
    /\ orders = NoOrders
    /\ envDiff = NoDiff
    /\ usedBundles = << >>
    /\ result = NoResult
    /\ peekLog = << >>
    /\ cancelled = NotCancelled

FreshEnv(es) == CHOOSE i \in EnvIds : es[i] = FreeEnv

\* CopyEnv that hands back the environment itself
CopyEnv_Alias(es, src) == [ref |-> src, envs |-> es]

\* environment.copy: a new environment object with the contents of src
CopyEnv(es, src) ==
    [ref |-> FreshEnv(es), envs |-> [es EXCEPT ![FreshEnv(es)] = es[src]]]

\* lines 85-86 and 32: the supply, the environment diff on a copy, no used bundles
B_Start ==
    /\ bpc = "L85"
    /\ orders' = NewTransactionsByPriceAndNonce(transactions, simBundles)
    /\ LET c == CopyEnv(envs, inputEnvironment)
       IN /\ envs' = c.envs
          /\ envDiff' = [baseEnvironment |-> c.ref, newTxs |-> << >>]
    /\ usedBundles' = << >>
    /\ bpc' = "L38"
    /\ UNCHANGED <<simBundles, transactions, interrupt, inputEnvironment, calls, result,
                   peekLog, cancelled>>
    /\ UNCHANGED <<relayVars, opsVars, decVars>>

\* B_MergeTx with no cursor operation when commitTx returns an error
B_MergeTx_NoCursorOnError ==
    /\ bpc = "L38"
    /\ \E order \in PeekSet(orders), c \in CommitTxOutcomes :
        /\ order.kind = "tx"
        /\ orders' = IF c.err THEN orders
                     ELSE IF c.skip = shiftTx THEN Shift(orders, order) ELSE Pop(orders, order)
        /\ envDiff' = IF c.err THEN envDiff
                      ELSE [envDiff EXCEPT !.newTxs = Append(@, order)]
        /\ peekLog' = Append(peekLog, [order |-> order, skip |-> c.skip, ok |-> ~c.err])
    /\ UNCHANGED <<simBundles, transactions, interrupt, inputEnvironment, envs, calls,
                   bpc, usedBundles, result, cancelled>>
    /\ UNCHANGED <<relayVars, opsVars, decVars>>

\* B_MergeTx that leaves the loop when commitTx returns an error
B_MergeTx_ErrorBreaks ==
    /\ bpc = "L38"
    /\ \E order \in PeekSet(orders), c \in CommitTxOutcomes :
        /\ order.kind = "tx"
        /\ orders' = IF c.skip = shiftTx THEN Shift(orders, order) ELSE Pop(orders, order)
        /\ envDiff' = IF c.err THEN envDiff
                      ELSE [envDiff EXCEPT !.newTxs = Append(@, order)]
        /\ peekLog' = Append(peekLog, [order |-> order, skip |-> c.skip, ok |-> ~c.err])
        /\ bpc' = IF c.err THEN "L88" ELSE bpc
    /\ UNCHANGED <<simBundles, transactions, interrupt, inputEnvironment, envs, calls,
                   usedBundles, result, cancelled>>
    /\ UNCHANGED <<relayVars, opsVars, decVars>>

\* lines 38-61: the peeked order is a transaction
B_MergeTx ==
    /\ bpc = "L38"
    /\ \E order \in PeekSet(orders), c \in CommitTxOutcomes :
        /\ order.kind = "tx"
        /\ orders' = IF c.skip = shiftTx THEN Shift(orders, order) ELSE Pop(orders, order)
        /\ envDiff' = IF c.err THEN envDiff
                      ELSE [envDiff EXCEPT !.newTxs = Append(@, order)]
        /\ peekLog' = Append(peekLog, [order |-> order, skip |-> c.skip, ok |-> ~c.err])
    /\ UNCHANGED <<simBundles, transactions, interrupt, inputEnvironment, envs, calls,
                   bpc, usedBundles, result, cancelled>>
    /\ UNCHANGED <<relayVars, opsVars, decVars>>

\* B_MergeBundle with the bundle appended before the error is looked at
B_MergeBundle_AppendsFirst ==
    /\ bpc = "L38"
    /\ \E order \in PeekSet(orders), c \in CommitBundleOutcomes :
        /\ order.kind = "bundle"
        /\ orders' = Pop(orders, order)
        /\ envDiff' = IF c # "nil" THEN envDiff
                      ELSE [envDiff EXCEPT !.newTxs = Append(@, order)]
        /\ usedBundles' = Append(usedBundles, order)
        /\ peekLog' = Append(peekLog, [order |-> order, skip |-> popTx, ok |-> c = "nil"])
        /\ cancelled' = IF c = "errInterrupt" /\ ~cancelled.at
                        THEN [at |-> TRUE, newTxs |-> envDiff.newTxs,
                              used |-> usedBundles, heads |-> orders.heads]
                        ELSE cancelled
    /\ UNCHANGED <<simBundles, transactions, interrupt, inputEnvironment, envs, calls,
                   bpc, result>>
    /\ UNCHANGED <<relayVars, opsVars, decVars>>

\* lines 62-77: the peeked order is a bundle
B_MergeBundle ==
    /\ bpc = "L38"
    /\ \E order \in PeekSet(orders), c \in CommitBundleOutcomes :
        /\ order.kind = "bundle"
        /\ orders' = Pop(orders, order)
        /\ envDiff' = IF c # "nil" THEN envDiff
                      ELSE [envDiff EXCEPT !.newTxs = Append(@, order)]
        /\ usedBundles' = IF c # "nil" THEN usedBundles ELSE Append(usedBundles, order)
        /\ peekLog' = Append(peekLog, [order |-> order, skip |-> popTx, ok |-> c = "nil"])
        /\ cancelled' = IF c = "errInterrupt" /\ ~cancelled.at
                        THEN [at |-> TRUE, newTxs |-> envDiff.newTxs,
                              used |-> usedBundles, heads |-> orders.heads]
                        ELSE cancelled
    /\ UNCHANGED <<simBundles, transactions, interrupt, inputEnvironment, envs, calls,
                   bpc, result>>
    /\ UNCHANGED <<relayVars, opsVars, decVars>>

\* lines 38-40 and 79-81: Peek returns nil, the loop ends
B_Exhausted ==
    /\ bpc = "L38"
    /\ PeekSet(orders) = {}
    /\ bpc' = "L88"
    /\ UNCHANGED <<simBundles, transactions, interrupt, inputEnvironment, envs, calls,
                   orders, envDiff, usedBundles, result, peekLog, cancelled>>
    /\ UNCHANGED <<relayVars, opsVars, decVars>>

\* environmentDiff.applyToBaseEnv: the diff is merged into the environment
\* object it was built on
ApplyToBaseEnv(d, es) ==
    [es EXCEPT ![d.baseEnvironment] = [txs |-> @.txs \o d.newTxs]]

\* lines 88-89: apply the diff and return the environment and the used bundles
B_Finalize ==
    /\ bpc = "L88"
    /\ envs' = ApplyToBaseEnv(envDiff, envs)
    /\ result' = [env |-> envDiff.baseEnvironment, usedBundles |-> usedBundles]
    /\ bpc' = "done"
    /\ UNCHANGED <<simBundles, transactions, interrupt, inputEnvironment, calls, orders,
                   envDiff, usedBundles, peekLog, cancelled>>
    /\ UNCHANGED <<relayVars, opsVars, decVars>>

\* lines 12-16: the caller has taken the result and calls buildBlock again on
\* the same builder; the environment it was handed is its own
B_Again ==
    /\ bpc = "done"
    /\ calls < MaxBuilds
    /\ calls' = calls + 1
    /\ bpc' = "L85"
    /\ envs' = [i \in EnvIds |-> IF i = inputEnvironment THEN envs[i] ELSE FreeEnv]
    /\ orders' = NoOrders
    /\ envDiff' = NoDiff
    /\ usedBundles' = << >>
    /\ result' = NoResult
    /\ peekLog' = << >>
    /\ cancelled' = NotCancelled
    /\ UNCHANGED <<simBundles, transactions, interrupt, inputEnvironment>>
    /\ UNCHANGED <<relayVars, opsVars, decVars>>

\* the worker sets the interrupt while the build runs
B_Interrupt ==
    /\ bpc \in {"L85", "L38"}
    /\ ~interrupt
    /\ interrupt' = TRUE
    /\ UNCHANGED <<simBundles, transactions, inputEnvironment, envs, calls, bpc, orders,
                   envDiff, usedBundles, result, peekLog, cancelled>>
    /\ UNCHANGED <<relayVars, opsVars, decVars>>

\* no relay client call
IdleOp == [pc |-> "idle"]

IdleOps == op = IdleOp

\* the steps of a buildBlock call
BuildStep ==
    \/ B_Start
    \/ B_MergeTx
    \/ B_MergeBundle
    \/ B_Exhausted
    \/ B_Finalize

NextBuild ==
    \/ B_Start
    \/ B_MergeTx
    \/ B_MergeBundle
    \/ B_Exhausted
    \/ B_Finalize
    \/ B_Again
    \/ B_Interrupt

(***************************************************************************)
(* The relay client's calls: GetHeader, SubmitBlock, SubmitBlockCapella.   *)
(***************************************************************************)
StatusNoContent == 204

\* response statuses the peer may answer with
StatusCodes == {101, 200, StatusNoContent, 299, 300, 500}

\* the canonical empty-list transactions root GetHeader compares with
EmptyListTxRoot == "0x7ffe241ea60187fdb0187bfa22de35d1f9bed7ab061d9401fd47e34a54fbede1"

TxRoots == {EmptyListTxRoot, "0x01"}

\* bid values, in wei
BidValues == {0, 7}

\* big.Int.String for the values above
DecString(v) ==
    CASE v = 0 -> "0" [] v = 1 -> "1" [] v = 2 -> "2" [] v = 3 -> "3" [] v = 4 -> "4"
      [] v = 5 -> "5" [] v = 6 -> "6" [] v = 7 -> "7" [] v = 8 -> "8" [] v = 9 -> "9"

\* the GetHeaderResponse payloads the peer may send
HeaderPayloads ==
    [invalid : BOOLEAN, value : BidValues, txRoot : TxRoots]

NoPayload == [invalid |-> TRUE, value |-> 0, txRoot |-> "0x01"]

\* the client GetHeader, SubmitBlock and SubmitBlockCapella hand to SendHTTPRequest
CallClient == "http.DefaultClient"

\* GetHeaderResult without the test for a zero value
GetHeaderResult_NoZeroFilter(err, code, p) ==
    IF err THEN [ret |-> "error", outcome |-> "request failed"]
    ELSE IF code = StatusNoContent THEN [ret |-> "nil", outcome |-> "no-content"]
    ELSE IF p.invalid THEN [ret |-> "nil", outcome |-> "invalid"]
    ELSE IF p.txRoot = EmptyListTxRoot
         THEN [ret |-> "nil", outcome |-> "ignored"]
    ELSE [ret |-> "nil", outcome |-> "bid received"]

\* lines 149-174: GetHeader's result for what SendHTTPRequest returned and decoded
GetHeaderResult(err, code, p) ==
    IF err THEN [ret |-> "error", outcome |-> "request failed"]
    ELSE IF code = StatusNoContent THEN [ret |-> "nil", outcome |-> "no-content"]
    ELSE IF p.invalid THEN [ret |-> "nil", outcome |-> "invalid"]
    ELSE IF DecString(p.value) = "0" \/ p.txRoot = EmptyListTxRoot
         THEN [ret |-> "nil", outcome |-> "ignored"]
    ELSE [ret |-> "nil", outcome |-> "bid received"]

\* lines 180-191: SubmitBlock's result, and whether the block went to the local relay
SubmitBlockResult(err, code) ==
    IF err THEN [ret |-> "error", mirrored |-> FALSE]
    ELSE IF code > 299 THEN [ret |-> "error", mirrored |-> FALSE]
    ELSE [ret |-> "nil", mirrored |-> localRelay # "nil"]

\* lines 197-208: the same for SubmitBlockCapella
SubmitBlockCapellaResult(err, code) ==
    IF err THEN [ret |-> "error", mirrored |-> FALSE]
    ELSE IF code > 299 THEN [ret |-> "error", mirrored |-> FALSE]
    ELSE [ret |-> "nil", mirrored |-> localRelay # "nil"]

\* a relay client with or without a local relay, and no call yet
InitOps ==
    /\ localRelay \in {"nil", "set"}
    /\ op = IdleOp

\* lines 148, 179, 196: the request goes out
H_Send(kind) ==
    /\ op.pc = "idle"
    /\ op' = [pc |-> "sent", kind |-> kind, client |-> CallClient]
    /\ UNCHANGED <<relayVars, buildVars, decVars>>

\* lines 148-174: SendHTTPRequest returns to GetHeader
H_GetHeaderReturn ==
    /\ op.pc = "sent"
    /\ op.kind = "GetHeader"
    /\ \E err \in BOOLEAN, code \in StatusCodes, p \in HeaderPayloads :
        LET res == GetHeaderResult(err, code, p)
        IN op' = [pc |-> "done", kind |-> op.kind, client |-> op.client,
                  err |-> err, code |-> code, payload |-> p,
                  ret |-> res.ret, outcome |-> res.outcome, mirrored |-> FALSE]
    /\ UNCHANGED <<relayVars, buildVars, decVars>>

\* lines 179-191: SendHTTPRequest returns to SubmitBlock
H_SubmitBlockReturn ==
    /\ op.pc = "sent"
    /\ op.kind = "SubmitBlock"
    /\ \E err \in BOOLEAN, code \in StatusCodes :
        LET res == SubmitBlockResult(err, code)
        IN op' = [pc |-> "done", kind |-> op.kind, client |-> op.client,
                  err |-> err, code |-> code, payload |-> NoPayload,
                  ret |-> res.ret, outcome |-> "submitted", mirrored |-> res.mirrored]
    /\ UNCHANGED <<relayVars, buildVars, decVars>>

\* lines 196-208: SendHTTPRequest returns to SubmitBlockCapella
H_SubmitBlockCapellaReturn ==
    /\ op.pc = "sent"
    /\ op.kind = "SubmitBlockCapella"
    /\ \E err \in BOOLEAN, code \in StatusCodes :
        LET res == SubmitBlockCapellaResult(err, code)
        IN op' = [pc |-> "done", kind |-> op.kind, client |-> op.client,
                  err |-> err, code |-> code, payload |-> NoPayload,
                  ret |-> res.ret, outcome |-> "submitted", mirrored |-> res.mirrored]
    /\ UNCHANGED <<relayVars, buildVars, decVars>>

\* the caller has the result; the client is ready for the next call
H_Done ==
    /\ op.pc = "done"
    /\ op' = IdleOp
    /\ UNCHANGED <<relayVars, buildVars, decVars>>

NextOps ==
    \/ \E kind \in {"GetHeader", "SubmitBlock", "SubmitBlockCapella"} : H_Send(kind)
    \/ H_GetHeaderReturn
    \/ H_SubmitBlockReturn
    \/ H_SubmitBlockCapellaReturn
    \/ H_Done

(***************************************************************************)
(* getSlotValidatorMapFromRelay on the responses a peer may send.          *)
(***************************************************************************)
\* records in one response
MaxRecords == 2

\* a fee_recipient of AddressLength bytes: 0x and the two digits hi lo, 20 times
HexAddress(hi, lo) ==
    <<"0", "x">> \o [i \in 1..(2 * AddressLength) |-> IF i % 2 = 1 THEN hi ELSE lo]

\* fee_recipient strings: an address, an address in upper case, one byte of
\* hex, a bad digit, no prefix, an odd number of digits, the empty string
FeeRecipients ==
    { HexAddress("a", "1"), HexAddress("B", "2"),
      <<"0", "x", "a", "1">>, <<"0", "x", "g", "0">>, <<"a", "1">>,
      <<"0", "x", "a">>, << >> }

ResponseRecords ==
    [slot : Slots, fee_recipient : FeeRecipients, gas_limit : {30},
     pubkey : {<<"0", "x", "A", "b">>}]

\* the responses of at most n records
Responses(n) == UNION {[1..k -> ResponseRecords] : k \in 0..n}

IdleDec == [pc |-> "idle"]

IdleDecode == dec = IdleDec

\* line 213: the request goes out
D_Send ==
    /\ dec.pc = "idle"
    /\ dec' = [pc |-> "sent", client |-> FetchClient]
    /\ UNCHANGED <<relayVars, buildVars, opsVars>>

\* lines 213-243: SendHTTPRequest returns, the response is decoded
D_Return ==
    /\ dec.pc = "sent"
    /\ \E dst \in Responses(MaxRecords), err \in BOOLEAN, code \in {200, 500} :
        LET o == [err |-> err, code |-> code, dst |-> dst]
            res == GetSlotValidatorMapFromRelay(o)
        IN dec' = [pc |-> "done", client |-> dec.client, o |-> o,
                   ok |-> res.ok, err |-> res.err, map |-> res.map]
    /\ UNCHANGED <<relayVars, buildVars, opsVars>>

\* the caller has the result
D_Done ==
    /\ dec.pc = "done"
    /\ dec' = IdleDec
    /\ UNCHANGED <<relayVars, buildVars, opsVars>>

NextDecode ==
    \/ D_Send
    \/ D_Return
    \/ D_Done

NextRelay ==
    \/ \E r \in Refreshers : U_Lock(r)
    \/ \E r \in Refreshers : U_Reject(r)
    \/ \E r \in Refreshers : U_MarkOngoing(r)
    \/ \E r \in Refreshers : U_FetchBegin(r)
    \/ \E r \in Refreshers : U_FetchEnd(r)
    \/ \E r \in Refreshers : U_Wake(r)
    \/ \E r \in Refreshers : U_ClearOngoing(r)
    \/ \E r \in Refreshers : U_FailReturn(r)
    \/ \E r \in Refreshers : U_InstallMap(r)
    \/ \E r \in Refreshers : U_InstallSlot(r)
    \/ \E l \in Lookups, s \in Slots : G_Call(l, s)
    \/ \E l \in Lookups : G_RLock(l)
    \/ \E l \in Lookups : G_MaybeSpawn(l)
    \/ \E l \in Lookups : G_Read(l)
    \/ \E l \in Lookups : G_RUnlock(l)
    \/ \E l \in Lookups : G_Return(l)
    \/ \E l \in Lookups : G_Exit(l)

\* the steps of one updateValidatorsMap invocation
RefreshStep(r) ==
    \/ U_Lock(r)
    \/ U_Reject(r)
    \/ U_MarkOngoing(r)
    \/ U_FetchBegin(r)
    \/ U_FetchEnd(r)
    \/ U_Wake(r)
    \/ U_ClearOngoing(r)
    \/ U_FailReturn(r)
    \/ U_InstallMap(r)
    \/ U_InstallSlot(r)

\* no registry activity: no invocation, no map object
QuietRegistry ==
    /\ validatorsLock = [w |-> NoOne, r |-> {}]
    /\ validatorSyncOngoing = FALSE
    /\ lastRequestedSlot = 0
    /\ validatorSlotMap = NilMap
    /\ heap = << >>
    /\ upd = << >>
    /\ get = << >>
    /\ installed = << >>
    /\ pre = << >>
    /\ nfetch = << >>
    /\ seen = << >>
    /\ localAns = << >>

\* the validator registry: NewRemoteRelay's refresh, then lookups and the
\* refreshes they spawn
Init == InitRelay /\ IdleBuild /\ IdleOps /\ IdleDecode

Next == NextRelay

Spec == Init /\ [][Next]_vars

\* the largest retry budget updateValidatorsMap is called with
MaxRetries == 3

\* two callers invoke updateValidatorsMap at the same time, each with a slot
\* and a retry budget of its own
InitRetry ==
    /\ localRelay = "nil"
    /\ validatorsLock = [w |-> NoOne, r |-> {}]
    /\ validatorSyncOngoing = FALSE
    /\ lastRequestedSlot = 0
    /\ validatorSlotMap = 0
    /\ heap = [i \in MapIds |-> IF i = 0 THEN EmptyMap ELSE FreeMap]
    /\ \E s0, s1 \in Slots, m0, m1 \in 0..MaxRetries :
         upd = [r \in Refreshers |->
                  IF r = 0 THEN CallFrame(s0, m0)
                  ELSE IF r = 1 THEN CallFrame(s1, m1)
                  ELSE IdleU]
    /\ get = [l \in Lookups |-> IdleG]
    /\ installed = View0
    /\ pre = [r \in Refreshers |-> View0]
    /\ nfetch = [r \in Refreshers |-> 0]
    /\ seen = [l \in Lookups |-> NoSeen]
    /\ localAns = [l \in Lookups |-> "none"]

NextRetry == \E r \in Refreshers : RefreshStep(r)

\* every goroutine that can run is scheduled, every fetch returns and every
\* sleep ends
RetryFairness == \A r \in Refreshers : WF_vars(RefreshStep(r))

InitR == InitRetry /\ IdleBuild /\ IdleOps /\ IdleDecode

SpecRetry == InitR /\ [][NextRetry]_vars /\ RetryFairness

\* one buildBlock call of a greedyBuilder
InitB == localRelay = "nil" /\ QuietRegistry /\ InitBuild /\ IdleOps /\ IdleDecode

SpecBuild == InitB /\ [][NextBuild]_vars

\* a buildBlock call runs on: every commit returns
SpecBuildLive == InitB /\ [][NextBuild]_vars /\ WF_vars(BuildStep)

\* the calls of a relay client, one at a time
InitO == InitOps /\ QuietRegistry /\ IdleBuild /\ IdleDecode

SpecOps == InitO /\ [][NextOps]_vars

\* the calls of getSlotValidatorMapFromRelay, one at a time
InitD == localRelay = "nil" /\ QuietRegistry /\ IdleBuild /\ IdleOps /\ IdleDecode

SpecDecode == InitD /\ [][NextDecode]_vars

(***************************************************************************)
(* Properties of the validator registry (specification Spec).              *)
(***************************************************************************)
\* r is between setting validatorSyncOngoing (line 70) and clearing it (line 82)
InWindow(r) == upd[r].pc \in {"L74", "F74", "S77", "L78", "F78", "L81", "L82"}

\* r is inside a network fetch or the back-off sleep
OnNetwork(r) == upd[r].pc \in {"F74", "F78", "S77"}

InitialRetries(r) == upd[r].maxRetries

C1_State ==
    /\ \A r1, r2 \in Refreshers : InWindow(r1) /\ InWindow(r2) => r1 = r2
    /\ validatorSyncOngoing <=> \E r \in Refreshers : InWindow(r)
    /\ \A r \in Refreshers : upd[r].ret = "ongoing" => nfetch[r] = 0
    /\ \A r \in Refreshers :
         upd[r].pc \in {"L81", "L82"} /\ upd[r].err = "nil"
           /\ upd[r].retries = InitialRetries(r) => nfetch[r] = 1

C1_Step ==
    \A r \in Refreshers :
      (upd[r].pc = "L66" /\ validatorSyncOngoing /\ upd'[r] # upd[r]) =>
        /\ upd'[r] = Returned("ongoing")
        /\ nfetch'[r] = 0
        /\ UNCHANGED <<validatorSlotMap, heap, lastRequestedSlot, validatorSyncOngoing>>

\* C1: at most one updateValidatorsMap invocation is between setting and
\* clearing validatorSyncOngoing; an invocation that finds the flag set returns
\* "sync is ongoing" at once, fetches nothing and leaves the map, the watermark
\* and the flag unchanged; an invocation whose first fetch succeeds has fetched
\* exactly once.
C1_RefreshMutualExclusion == []C1_State /\ [][C1_Step]_vars

\* one refresh has fetched once with success while another was turned away
C1_Witness ==
    \E r1, r2 \in Refreshers :
      /\ r1 # r2
      /\ upd[r1].pc = "L81" /\ upd[r1].err = "nil" /\ nfetch[r1] = 1
      /\ upd[r2].ret = "ongoing"

\* C2: the map and the watermark are installed together under the exclusive
\* lock and the installed map is not modified afterwards: whenever the lock is
\* not held exclusively the registry is exactly the last completed install; a
\* lookup's watermark and entry both come from the one install it observed,
\* which stays in place while the lookup holds the shared lock.
C2_ReplaceOnlySnapshot ==
    /\ validatorsLock.w = NoOne => CurrentView = installed
    /\ \A l \in Lookups :
         /\ get[l].pc \in {"L112", "L113", "L115", "done"} =>
              seen[l].mark = seen[l].view.slot
         /\ get[l].pc \in {"L112", "L113"} => CurrentView = seen[l].view
         /\ get[l].pc \in {"L113", "L115", "done"} =>
              /\ get[l].vd = seen[l].view.map[get[l].nextSlot]
              /\ get[l].found = (seen[l].view.map[get[l].nextSlot] # NoEntry)

\* a lookup has read an entry while a refresh waits to install a different map
C2_Witness ==
    \E l \in Lookups, r \in Refreshers :
      /\ get[l].pc = "L113" /\ get[l].found
      /\ upd[r].pc = "L81" /\ upd[r].err = "nil"
      /\ heap[upd[r].newMap] # heap[validatorSlotMap]

\* C3: no invocation holds validatorsLock while it fetches or sleeps; the lock
\* is held only for the flag updates, the map swap and a lookup's reads.
C3_NoLockDuringNetwork ==
    /\ \A r \in Refreshers : OnNetwork(r) => validatorsLock.w # r
    /\ validatorsLock.w # NoOne =>
         upd[validatorsLock.w].pc \in {"L66", "L82", "L83", "L90"}
    /\ \A l \in validatorsLock.r : get[l].pc \in {"L102", "L112", "L113"}

\* a lookup holds the shared lock while a refresh is on the network
C3_Witness ==
    \E l \in Lookups, r \in Refreshers :
      /\ OnNetwork(r)
      /\ l \in validatorsLock.r
      /\ get[l].pc = "L112"

\* r's fetch and all its retries have failed
AllFetchesFailed(r) == upd[r].pc \in {"L81", "L82", "L83"} /\ upd[r].err # "nil"

C4_State ==
    \A r \in Refreshers :
      AllFetchesFailed(r) =>
        /\ upd[r].retries = 0
        /\ nfetch[r] = InitialRetries(r) + 1
        /\ CurrentView = pre[r]
        /\ upd[r].pc = "L83" => ~validatorSyncOngoing

C4_Step ==
    \A r \in Refreshers :
      (AllFetchesFailed(r) /\ upd'[r].pc = "done") =>
        /\ upd'[r].ret = upd[r].err
        /\ upd'[r].ret \in {"transport", "status"}
        /\ ~validatorSyncOngoing'
        /\ validatorsLock'.w = NoOne
        /\ CurrentView' = pre[r]
        /\ installed' = installed
        /\ \A s \in Slots :
             pre[r].map[s] # NoEntry => heap'[validatorSlotMap'][s] = pre[r].map[s]

\* C4: when the initial fetch and every retry fail, updateValidatorsMap returns
\* the fetch error, clears validatorSyncOngoing and leaves validatorSlotMap and
\* lastRequestedSlot as they were when it passed the guard, so every slot of
\* the previous map still answers with its data.
C4_FailedRefreshKeepsStale == []C4_State /\ [][C4_Step]_vars

\* a refresh has failed and a lookup has then answered from the previous map
C4_Witness ==
    \E l \in Lookups, r \in Refreshers :
      /\ upd[r].ret \in {"transport", "status"}
      /\ r # 0
      /\ get[l].pc = "done" /\ get[l].ret = "ok"
      /\ localAns[l] # "found"
      /\ get[l].val = heap[validatorSlotMap][get[l].nextSlot]
      /\ ~validatorSyncOngoing

\* C5: GetValidatorForSlot(s) returns the local registration whenever a local
\* relay is configured and has one, otherwise the remote map's entry for s,
\* and ErrValidatorNotFound exactly when there is neither; no other error.
C5_LookupResult ==
    \A l \in Lookups :
      get[l].pc = "done" =>
        LET remote == seen[l].view.map[get[l].nextSlot]
            hasLocal == localRelay = "set" /\ localAns[l] = "found"
        IN /\ get[l].ret \in {"ok", "ErrValidatorNotFound"}
           /\ hasLocal => get[l].ret = "ok" /\ get[l].val = LocalValidator
           /\ (~hasLocal /\ remote # NoEntry) => get[l].ret = "ok" /\ get[l].val = remote
           /\ get[l].ret = "ErrValidatorNotFound" <=> (~hasLocal /\ remote = NoEntry)

\* a lookup has returned the local registration over a remote entry
C5_Witness ==
    \E l \in Lookups :
      /\ get[l].pc = "done"
      /\ localAns[l] = "found"
      /\ seen[l].view.map[get[l].nextSlot] # NoEntry
      /\ get[l].val = LocalValidator

\* C8: every outbound call of the relay client carries a timeout, so that a
\* peer that never responds fails the call (stated for the validator-set fetch:
\* a fetch in flight was sent through a client with a non-zero timeout).
C8_EveryCallHasTimeout ==
    \A r \in Refreshers :
      upd[r].pc \in {"F74", "F78"} => ClientTimeout(upd[r].client) > 0

\* lookup l has passed line 102 and still holds the shared lock
PastTrigger(l) == get[l].pc \in {"L112", "L113"}

\* the refresh goroutine of lookup l exists; it cannot have taken the
\* exclusive lock yet
Spawned(l) == upd[l].pc = "L65"

\* the frame of updateValidatorsMap(nextSlot, 1)
SpawnedFrame(nextSlot) == CallFrame(nextSlot, LookupRetries)

\* the lookup's next step can be taken whatever its goroutine does
LookupCanStep(l) ==
    CASE get[l].pc = "L112" -> ENABLED G_Read(l)
      [] get[l].pc = "L113" -> ENABLED G_RUnlock(l)
      [] get[l].pc = "L115" -> ENABLED G_Return(l)
      [] OTHER -> TRUE

\* C13 as stated: a lookup spawns a refresh exactly when it is the first
\* lookup made on the relay or nextSlot is in a later epoch than the watermark.
C13_SpawnIffFirstOrLaterEpoch ==
    \A l \in Lookups :
      PastTrigger(l) =>
        (Spawned(l) <=>
           (l = 1 \/ get[l].nextSlot \div EpochLen > seen[l].mark \div EpochLen))

\* C13, amended: GetValidatorForSlot(nextSlot) spawns updateValidatorsMap(
\* nextSlot, 1) exactly when the watermark it reads is 0 or nextSlot/32 is
\* greater than watermark/32. The first lookup reads a zero watermark and so
\* always spawns; a later lookup spawns as well while the watermark is still
\* 0. The lookup never waits for the refresh it spawned.
C13_RefreshTrigger ==
    \A l \in Lookups :
      /\ PastTrigger(l) =>
           /\ Spawned(l) <=>
                (seen[l].mark = 0
                   \/ get[l].nextSlot \div EpochLen > seen[l].mark \div EpochLen)
           /\ Spawned(l) => upd[l] = SpawnedFrame(get[l].nextSlot)
           /\ ~Spawned(l) => upd[l] = IdleU
           /\ l = 1 => Spawned(l)
      /\ LookupCanStep(l)

\* the second lookup, for a slot of the watermark's epoch, has spawned a refresh
C13_Witness ==
    /\ PastTrigger(2)
    /\ seen[2].mark = 0
    /\ get[2].nextSlot = 0
    /\ Spawned(2)
    /\ upd[1].pc = "done"

\* C14: the refresh a lookup spawns cannot take the exclusive lock before the
\* lookup has read the map and released the shared lock, so it has installed
\* nothing when the lookup reads: the lookup's entry comes from the install
\* it observed before spawning, and what the lookup returns is that entry, the
\* local registration or ErrValidatorNotFound, never the refresh's map or error.
C14_FireAndForget ==
    \A l \in Lookups :
      /\ get[l].pc \in {"L101", "L102"} => upd[l] = IdleU
      /\ PastTrigger(l) =>
           /\ upd[l].pc \in {"idle", "L65"}
           /\ CurrentView = seen[l].view
      /\ get[l].pc \in {"L113", "L115", "done"} =>
           get[l].vd = seen[l].view.map[get[l].nextSlot]
      /\ get[l].pc = "done" =>
           /\ get[l].ret \in {"ok", "ErrValidatorNotFound"}
           /\ get[l].val \in {LocalValidator, seen[l].view.map[get[l].nextSlot]}
           /\ localAns[l] # "found" => get[l].val = seen[l].view.map[get[l].nextSlot]

\* a lookup has returned the entry of the old map after the refresh it
\* spawned installed a map with another entry for the slot
C14_Witness ==
    \E l \in Lookups :
      /\ get[l].pc = "done"
      /\ upd[l].ret = "ok"
      /\ localAns[l] # "found"
      /\ installed.slot = get[l].nextSlot
      /\ installed.map[get[l].nextSlot] # seen[l].view.map[get[l].nextSlot]
      /\ get[l].val = seen[l].view.map[get[l].nextSlot]

\* the fetches r has started, from its position and the budget it has left
FetchesFor(r) ==
    CASE upd[r].pc = "L74" -> 0
      [] upd[r].pc = "F78" -> InitialRetries(r) - upd[r].retries + 2
      [] OTHER -> InitialRetries(r) - upd[r].retries + 1

C15_State ==
    \A r \in Refreshers :
      InWindow(r) =>
        /\ upd[r].retries \in 0..InitialRetries(r)
        /\ nfetch[r] = FetchesFor(r)
        /\ nfetch[r] <= InitialRetries(r) + 1
        /\ upd[r].pc \in {"S77", "L78", "F78"} => upd[r].err # "nil"
        /\ upd[r].pc \in {"S77", "L78"} => upd[r].retries > 0
        /\ (upd[r].pc \in {"L81", "L82"} /\ upd[r].err # "nil") => upd[r].retries = 0

\* C15: an updateValidatorsMap(slot, maxRetries) that has passed the guard
\* fetches once and then once more per retry, at most maxRetries + 1 times in
\* all; it retries only after a failed fetch and only while budget is left, so
\* it stops at the first success; and when every fetch returns it returns.
C15_BoundedRetry ==
    /\ []C15_State
    /\ \A r \in Refreshers : InWindow(r) ~> (upd[r].pc = "done")

\* one invocation has returned the error of its last fetch, and another, called
\* with three retries, has stopped at the success of its second retry
C15_Witness ==
    /\ upd[0].ret \in {"transport", "status"}
    /\ upd[1].pc = "L81"
    /\ upd[1].err = "nil"
    /\ upd[1].maxRetries = MaxRetries
    /\ nfetch[1] = 3

\* C19: lastRequestedSlot never decreases: no step of a lookup or a refresh
\* stores a watermark lower than the one already stored.
C19_WatermarkMonotone == [][lastRequestedSlot' >= lastRequestedSlot]_vars

(***************************************************************************)
(* Properties of the greedy builder (specifications SpecBuild and          *)
(* SpecBuildLive).                                                         *)
(***************************************************************************)
\* C6: once commitBundle has observed the interrupt, nothing more is committed
\* to the environment or consumed from the supply, and buildBlock returns the
\* environment and the used bundles as they were when the interrupt was
\* observed.
C6_CancellationStopsBuild ==
    cancelled.at =>
      /\ envDiff.newTxs = cancelled.newTxs
      /\ usedBundles = cancelled.used
      /\ orders.heads = cancelled.heads
      /\ bpc = "done" =>
           /\ envs[result.env] = [txs |-> ParentEnv.txs \o cancelled.newTxs]
           /\ result.usedBundles = cancelled.used

IsBundleAttempt(e) == e.order.kind = "bundle"

IsCommitted(e) == e.ok

\* the bundles mergeOrdersIntoEnvDiff handed to commitBundle, in order
BundleAttempts == SelectSeq(peekLog, IsBundleAttempt)

\* C7: the used-bundle list is exactly the bundles whose commitBundle returned
\* no error, each once, in commit order; every bundle is attempted at most
\* once and is gone from the supply after its attempt, failed or not.
C7_UsedBundles ==
    LET committed == SelectSeq(BundleAttempts, IsCommitted)
    IN /\ usedBundles = [i \in 1..Len(committed) |-> committed[i].order]
       /\ \A i, j \in 1..Len(BundleAttempts) :
            i # j => BundleAttempts[i].order # BundleAttempts[j].order
       /\ \A i \in 1..Len(BundleAttempts) : BundleAttempts[i].order \notin orders.heads
       /\ bpc = "done" => result.usedBundles = usedBundles

\* a build has returned two used bundles after another bundle failed first
C7_Witness ==
    /\ bpc = "done"
    /\ Len(result.usedBundles) = 2
    /\ Len(BundleAttempts) = 3
    /\ ~BundleAttempts[1].ok

\* Shift, when it consumed e, put the transaction of f at the head
PromotedBy(e, f) ==
    /\ e.order.kind = "tx"
    /\ f.order.kind = "tx"
    /\ e.skip = shiftTx
    /\ f.order.from = e.order.from
    /\ f.order.n = e.order.n + 1

\* within one sender the transactions are peeked in nonce order
NonceOrdered ==
    \A i, j \in 1..Len(peekLog) :
      (/\ i < j
       /\ peekLog[i].order.kind = "tx"
       /\ peekLog[j].order.kind = "tx"
       /\ peekLog[i].order.from = peekLog[j].order.from) =>
        peekLog[i].order.n < peekLog[j].order.n

\* C11 as stated: the orders returned by successive peeks are non-increasing
\* in price, and within one sender they come in nonce order.
C11_PeeksNonIncreasing ==
    /\ \A i \in 1..(Len(peekLog) - 1) :
         peekLog[i + 1].order.price <= peekLog[i].order.price
    /\ NonceOrdered

\* C11, amended: each peek returns a head of the highest price, the heads
\* being the remaining bundles and each remaining sender's lowest-nonce
\* transaction. The price of the next order exceeds the price of the order
\* before it only when the next order is the same sender's following
\* transaction, which Shift has just put at the head; no other head exceeds
\* the order peeked last; within one sender the transactions come in nonce
\* order.
C11_SupplyOrdering ==
    /\ \A i \in 1..(Len(peekLog) - 1) :
         peekLog[i + 1].order.price > peekLog[i].order.price =>
           PromotedBy(peekLog[i], peekLog[i + 1])
    /\ (bpc = "L38" /\ Len(peekLog) > 0) =>
         LET last == peekLog[Len(peekLog)]
         IN \A h \in orders.heads :
              h.price > last.order.price =>
                PromotedBy(last, [order |-> h, skip |-> shiftTx, ok |-> TRUE])
    /\ NonceOrdered

\* a bundle was peeked, then a sender's first transaction at a lower price,
\* then the same sender's second transaction at a price above the bundle's
C11_Witness ==
    \E i \in 1..(Len(peekLog) - 2) :
      /\ peekLog[i].order.kind = "bundle"
      /\ peekLog[i + 1].order.price < peekLog[i].order.price
      /\ PromotedBy(peekLog[i + 1], peekLog[i + 2])
      /\ peekLog[i + 2].order.price > peekLog[i].order.price

\* the supply of the scenario: tx A (X, nonce 0, price 10), tx B (X, nonce 1,
\* price 50), bundle C (price 30), and every commit so far has succeeded
ScenarioABC ==
    /\ simBundles = {BundleOrder(1)}
    /\ transactions = [a \in Senders |-> IF a = "X" THEN QueueOf("X", 2) ELSE << >>]
    /\ \A i \in 1..Len(peekLog) : peekLog[i].ok

\* the orders handed to commitTx and commitBundle, in order
Processed == [i \in 1..Len(peekLog) |-> peekLog[i].order]

\* C12 as stated: in the scenario the build processes A, then C, then B.
C12_MergeOrderACB ==
    (ScenarioABC /\ bpc \in {"L88", "done"}) =>
      Processed = <<TxOrder("X", 0), BundleOrder(1), TxOrder("X", 1)>>

\* C12, amended: in the scenario the build processes C, then A, then B: at the
\* start the heads are A (10) and C (30), so C is peeked first; B (50) becomes
\* a head only when A is shifted.
C12_MergeOrderCAB ==
    (ScenarioABC /\ bpc \in {"L88", "done"}) =>
      /\ Processed = <<BundleOrder(1), TxOrder("X", 0), TxOrder("X", 1)>>
      /\ usedBundles = <<BundleOrder(1)>>
      /\ envDiff.newTxs = Processed

\* the build of the scenario has returned with all three orders committed
C12_Witness ==
    /\ ScenarioABC
    /\ bpc = "done"
    /\ Len(peekLog) = 3
    /\ envs[result.env].txs = ParentEnv.txs \o Processed

\* the orders still in the supply
Remaining(o) ==
    Cardinality(o.heads)
      + Cardinality({x \in Senders \X (1..(MaxQueue + 1)) : x[2] <= Len(o.txs[x[1]])})

C16_State ==
    /\ \A i, j \in 1..Len(peekLog) : i # j => peekLog[i].order # peekLog[j].order
    /\ \A i \in 1..Len(peekLog) : peekLog[i].order \notin orders.heads
    /\ bpc \in {"L38", "L88", "done"} =>
         Len(peekLog) + Remaining(orders)
           <= Remaining(NewTransactionsByPriceAndNonce(transactions, simBundles))
    /\ bpc \in {"L88", "done"} => Remaining(orders) = 0

C16_Step ==
    (bpc = "L38" /\ peekLog' # peekLog) =>
      LET e == peekLog'[Len(peekLog')]
      IN /\ peekLog' = Append(peekLog, e)
         /\ e.order \in PeekSet(orders)
         /\ e.skip \in {shiftTx, popTx}
         /\ orders' = IF e.skip = shiftTx THEN Shift(orders, e.order)
                                          ELSE Pop(orders, e.order)
         /\ e.order \notin orders'.heads
         /\ Remaining(orders') < Remaining(orders)
         /\ bpc' = "L38"

\* C16: every iteration of mergeOrdersIntoEnvDiff consumes the order it
\* peeked by exactly one cursor operation, Shift or Pop, whatever the commit
\* returned, so the supply shrinks at every iteration; no order is peeked
\* twice, the iterations number at most the orders supplied, and the loop
\* reaches its end with the supply exhausted.
C16_LoopProgress ==
    /\ []C16_State
    /\ [][C16_Step]_vars
    /\ (bpc = "L38") ~> (bpc = "L88" /\ Remaining(orders) = 0)

\* the loop has ended after five iterations, among them a failed bundle, a
\* transaction dropped with an error and a transaction shifted with an error
C16_Witness ==
    /\ bpc = "L88"
    /\ Len(peekLog) = 5
    /\ \E i \in 1..5 : peekLog[i].order.kind = "bundle" /\ ~peekLog[i].ok
    /\ \E i \in 1..5 : peekLog[i].order.kind = "tx" /\ ~peekLog[i].ok
                           /\ peekLog[i].skip = popTx
    /\ \E i \in 1..5 : peekLog[i].order.kind = "tx" /\ ~peekLog[i].ok
                           /\ peekLog[i].skip = shiftTx

IsTxError(e) == e.order.kind = "tx" /\ ~e.ok

\* the sender of e has a transaction of the next nonce in its queue
HasSuccessor(e) == e.order.n + 1 < Len(transactions[e.order.from])

\* the orders whose commit succeeded, in order
Committed == SelectSeq(peekLog, IsCommitted)

WasProcessed(o) == \E i \in 1..Len(peekLog) : peekLog[i].order = o

\* C17 as stated: a transaction whose commitTx returned an error contributes
\* nothing, and the loop goes on with the same sender's next transaction: the
\* sender's remaining queue is not discarded.
C17_ErrorKeepsSenderQueue ==
    /\ envDiff.newTxs = [i \in 1..Len(Committed) |-> Committed[i].order]
    /\ bpc \in {"L88", "done"} =>
         \A i \in 1..Len(peekLog) :
           (IsTxError(peekLog[i]) /\ HasSuccessor(peekLog[i])) =>
             WasProcessed(TxOrder(peekLog[i].order.from, peekLog[i].order.n + 1))

\* C17, amended: a transaction whose commitTx returned an error contributes
\* nothing to the environment and never ends the build: the loop runs until
\* the supply is exhausted. The cursor operation follows the disposition
\* commitTx returned with the error: after shiftTx the same sender's next
\* transaction is processed, after popTx the sender's remaining queue is
\* discarded and no further transaction of that sender is processed.
C17_CommitErrorSkips ==
    /\ envDiff.newTxs = [i \in 1..Len(Committed) |-> Committed[i].order]
    /\ \A i, j \in 1..Len(peekLog) :
         (/\ i < j
          /\ IsTxError(peekLog[i])
          /\ peekLog[i].skip = popTx
          /\ peekLog[j].order.kind = "tx") =>
           peekLog[j].order.from # peekLog[i].order.from
    /\ bpc \in {"L88", "done"} =>
         /\ \A i \in 1..Len(peekLog) :
              (/\ IsTxError(peekLog[i])
               /\ peekLog[i].skip = shiftTx
               /\ HasSuccessor(peekLog[i])) =>
                WasProcessed(TxOrder(peekLog[i].order.from, peekLog[i].order.n + 1))
         /\ \A b \in simBundles : WasProcessed(b)
         /\ \A a \in Senders : Len(transactions[a]) > 0 => WasProcessed(TxOrder(a, 0))

\* a build has run to its end past two failed transactions: the first was
\* shifted and the build went on; the second was popped and its sender's next
\* transaction was never processed
C17_Witness ==
    /\ bpc = "done"
    /\ Len(envDiff.newTxs) > 0
    /\ \E k, i \in 1..Len(peekLog) :
         /\ k < i
         /\ IsTxError(peekLog[k])
         /\ peekLog[k].skip = shiftTx
         /\ IsTxError(peekLog[i])
         /\ peekLog[i].skip = popTx
         /\ HasSuccessor(peekLog[i])
         /\ ~WasProcessed(TxOrder(peekLog[i].order.from, peekLog[i].order.n + 1))

\* C20: buildBlock works on a copy of inputEnvironment: the environment
\* the diff is built on and the one buildBlock returns are an object other
\* than the builder's input, which keeps the contents it was constructed
\* with; every call, the first and a later one, starts from those contents;
\* and the returned environment is the input's contents with the committed
\* orders applied once.
C20_InputEnvironmentFrame ==
    /\ inputEnvironment = 0
    /\ envs[inputEnvironment] = ParentEnv
    /\ bpc \in {"L38", "L88"} =>
         /\ envDiff.baseEnvironment # inputEnvironment
         /\ envs[envDiff.baseEnvironment] = ParentEnv
    /\ bpc = "done" =>
         /\ result.env = envDiff.baseEnvironment
         /\ result.env # inputEnvironment
         /\ envs[result.env] = [txs |-> ParentEnv.txs \o envDiff.newTxs]

\* the second buildBlock call on a builder has returned an environment with
\* two committed orders
C20_Witness ==
    /\ calls = 2
    /\ bpc = "done"
    /\ Len(envDiff.newTxs) >= 2
    /\ Len(envs[result.env].txs) = Len(envDiff.newTxs) + 1

(***************************************************************************)
(* Properties of the relay client's calls (specification SpecOps).         *)
(***************************************************************************)
\* C9: SubmitBlock and SubmitBlockCapella fail on a transport error and on any
\* status outside 200..299 and succeed on every 2xx status; the block goes to
\* the local relay exactly when the submission succeeded and a local relay is
\* configured; both variants give the same outcome.
C9_SubmissionOutcome ==
    (op.pc = "done" /\ op.kind \in {"SubmitBlock", "SubmitBlockCapella"}) =>
      /\ op.ret = "nil" <=> (~op.err /\ op.code \in 200..299)
      /\ op.mirrored <=> (op.ret = "nil" /\ localRelay = "set")
      /\ SubmitBlockResult(op.err, op.code) = SubmitBlockCapellaResult(op.err, op.code)

\* C10: GetHeader returns an error exactly when the request failed; a 204, an
\* invalid payload, a zero value and the empty-list transactions root are no
\* usable bid: success, and never "bid received"; only a valid bid of non-zero
\* value and another root is received.
C10_HeaderOutcome ==
    (op.pc = "done" /\ op.kind = "GetHeader") =>
      LET p == op.payload
          usable == /\ op.code # StatusNoContent
                    /\ ~p.invalid
                    /\ p.value # 0
                    /\ p.txRoot # EmptyListTxRoot
      IN /\ op.ret = "error" <=> op.err
         /\ op.ret \in {"error", "nil"}
         /\ op.outcome = "bid received" <=> (~op.err /\ usable)

\* GetHeader has returned success for a valid bid of value zero
C10_Witness ==
    /\ op.pc = "done" /\ op.kind = "GetHeader"
    /\ ~op.err /\ op.code = 200
    /\ ~op.payload.invalid /\ op.payload.value = 0
    /\ op.payload.txRoot # EmptyListTxRoot
    /\ op.ret = "nil" /\ op.outcome = "ignored"

(***************************************************************************)
(* Properties of the response decoding (specification SpecDecode).         *)
(***************************************************************************)
\* a fee_recipient that spells an address: 0x and 40 hex digits
WellFormed(fr) == HexDecodeOk(fr) /\ Len(HexDecode(fr)) = AddressLength

\* the records of the response that register slot s with a well-formed
\* fee_recipient
GoodRecords(dst, s) ==
    {i \in 1..Len(dst) : dst[i].slot = s /\ WellFormed(dst[i].fee_recipient)}

\* C18: a response that arrives with a status up to 299 is a successful fetch
\* whatever its records are; its map has an entry for exactly the slots of the
\* records whose fee_recipient is well-formed, and the entry of a slot carries
\* the gas limit, the fee recipient and the lower-cased public key of such a
\* record.
C18_PerEntryDecode ==
    dec.pc = "done" =>
      /\ dec.ok <=> (~dec.o.err /\ dec.o.code <= 299)
      /\ dec.ok =>
           \A s \in Slots :
             /\ dec.map[s] # NoEntry <=> GoodRecords(dec.o.dst, s) # {}
             /\ dec.map[s] # NoEntry =>
                  \E i \in GoodRecords(dec.o.dst, s) :
                    /\ dec.map[s].GasLimit = dec.o.dst[i].gas_limit
                    /\ dec.map[s].FeeRecipient = HexDecode(dec.o.dst[i].fee_recipient)
                    /\ dec.map[s].Pubkey = ToLower(dec.o.dst[i].pubkey)

====
